---------------------------- MODULE Spec2Model ----------------------------
(***************************************************************************)
(* ShareBite: donation lifecycle, driver assignment and driver occupancy.  *)
(* Request handlers run concurrently against the shared Donation and User  *)
(* collections; every `await` of a handler is one atomic step here.        *)
(***************************************************************************)
EXTENDS Integers, Sequences, FiniteSets, TLC

VARIABLES donations, users, req, started, rank, calc

vars == <<donations, users, req, started, rank, calc>>

(***************************************************************************)
(* Identities and bounds                                                   *)
(***************************************************************************)
NULL == "null"

Donors == {"o1"}
Receivers == {"r1", "r2"}
Drivers == {"v1", "v2"}
Admins == {"a1"}
Users == Donors \cup Receivers \cup Drivers \cup Admins

Donations == {"d1", "d2"}
Procs == {"p1", "p2"}

\* total number of requests the clients send in one run
MaxRequests == 2

\* the order in which the store returns documents of a collection
DriverOrder == <<"v1", "v2">>
DonationOrder == <<"d1", "d2">>

(***************************************************************************)
(* Schemas                                                                 *)
(***************************************************************************)
Statuses == {"available", "reserved", "assigned", "picked_up", "delivered", "cancelled"}
ActiveStatuses == {"assigned", "picked_up"}
DriverStatuses == {"available", "busy"}

\* a slot of the Donation collection that holds no document yet
NoDonation ==
    [status |-> "absent", donor |-> NULL, receiver |-> NULL, driver |-> NULL,
     actualDeliveryTime |-> FALSE, deliveryProof |-> FALSE,
     coordinates |-> FALSE, foodQuantity |-> 0]

\* new Donation({...req.body, donor}): the request body may carry a driver
NewDonationFromBody(donor, qty, coords) ==
    [NoDonation EXCEPT !.status = "available", !.donor = donor, !.driver = "v1",
                       !.coordinates = coords, !.foodQuantity = qty]

\* new Donation({donor, foodItems, pickupAddress, status: 'available'})
NewDonation(donor, qty, coords) ==
    [NoDonation EXCEPT !.status = "available", !.donor = donor,
                       !.coordinates = coords, !.foodQuantity = qty]

UserType(u) ==
    IF u \in Donors THEN "donor"
    ELSE IF u \in Receivers THEN "receiver"
    ELSE IF u \in Drivers THEN "driver" ELSE "admin"

\* a user document as registration leaves it (schema defaults); coordinates: the
\* address has a latitude and a longitude, zeroCoordinate: one of the two is 0
NewUser(u, cap, rep, dist) ==
    [userType |-> UserType(u), driverStatus |-> "available", isActive |-> TRUE,
     vehicleCapacity |-> cap, reputationScore |-> rep,
     coordinates |-> TRUE, zeroCoordinate |-> FALSE, distance |-> dist]

(***************************************************************************)
(* Pure functions of services/driverAssignment.js                          *)
(***************************************************************************)
\* totalKg after the items k.. of foodItems, in tenths of a kg
RECURSIVE AddFoodItems(_, _, _)
AddFoodItems(totalKg, foodItems, k) ==
    IF k > Len(foodItems) THEN totalKg
    ELSE LET item == foodItems[k]
             add == CASE item.unit = "kg" -> item.quantity * 10
                      [] item.unit = "liters" -> item.quantity * 10
                      [] item.unit = "boxes" -> item.quantity * 50
                      [] item.unit = "packets" -> item.quantity * 5
                      [] item.unit = "pieces" -> item.quantity * 2
                      [] OTHER -> item.quantity * 10
         IN AddFoodItems(totalKg + add, foodItems, k + 1)

\* the same loop with the case for boxes missing
calculateFoodQuantityNoBoxes(foodItems) ==
    AddFoodItems(0, [k \in 1..Len(foodItems) |->
                        IF foodItems[k].unit = "boxes"
                        THEN [foodItems[k] EXCEPT !.unit = "other"]
                        ELSE foodItems[k]], 1)

calculateFoodQuantity(foodItems) == AddFoodItems(0, foodItems, 1)

\* names that capacityMap[...] finds on Object.prototype instead of in the literal
ObjectPrototypeKeys == {"constructor", "toString", "valueOf", "hasOwnProperty"}

\* capacityMap[vehicleCapacity] || 150; an inherited member is truthy and is returned
getVehicleCapacityKg(vehicleCapacity) ==
    CASE vehicleCapacity = "small" -> 50
      [] vehicleCapacity = "medium" -> 150
      [] vehicleCapacity = "large" -> 300
      [] vehicleCapacity \in ObjectPrototypeKeys -> "function"
      [] OTHER -> 150

\* 3000 * (0.4*distance + 0.3*(100 - reputation) + 0.2*quantity/capacity + 0.1)
AssignScore(distance, reputation, foodQuantity, vehicleCapacity) ==
    1200 * distance + 900 * (100 - reputation)
        + (600 * foodQuantity) \div vehicleCapacity + 300

\* 100 * parseFloat((0.4*distance + 0.3*(100 - reputation) + 0.2*quantity/capacity).toFixed(2))
AdvisoryScore(distance, reputation, foodQuantity, vehicleCapacity) ==
    LET num == (1200 * distance + 900 * (100 - reputation)) * vehicleCapacity
                   + 600 * foodQuantity
    IN (2 * num + 30 * vehicleCapacity) \div (60 * vehicleCapacity)

\* eligibleDrivers.push({driver, capacity, score, ...}) of assignDriver
CommitEntry(driver, foodQuantity) ==
    LET vehicleCapacity == getVehicleCapacityKg(driver.doc.vehicleCapacity)
    IN [driver |-> driver.id, doc |-> driver.doc, capacity |-> vehicleCapacity,
        score |-> AssignScore(driver.doc.distance, driver.doc.reputationScore,
                              foodQuantity, vehicleCapacity)]

\* eligibleDrivers.push({id, capacity, score, ...}) of the advisory route
AdvisoryEntry(driver, foodQuantity) ==
    LET vehicleCapacity == getVehicleCapacityKg(driver.doc.vehicleCapacity)
    IN [driver |-> driver.id, capacity |-> vehicleCapacity,
        score |-> AdvisoryScore(driver.doc.distance, driver.doc.reputationScore,
                                foodQuantity, vehicleCapacity)]

\* Donation.countDocuments({driver, _id: {$ne: excl}, status in assigned|picked_up})
CountActiveIn(store, driverId, excl) ==
    Cardinality({d \in Donations :
        /\ d # excl
        /\ store[d].driver = driverId
        /\ store[d].status \in ActiveStatuses})

CountActive(driverId, excl) == CountActiveIn(donations, driverId, excl)

\* document.save(): $set of the paths the handler modified since it read the document
Save(stored, orig, new) ==
    [f \in DOMAIN stored |-> IF new[f] # orig[f] THEN new[f] ELSE stored[f]]

\* Array.prototype.sort((a, b) => a.score - b.score): stable insertion by score
RECURSIVE InsertByScore(_, _)
InsertByScore(e, s) ==
    IF s = << >> THEN <<e>>
    ELSE IF e.score < Head(s).score THEN <<e>> \o s
    ELSE <<Head(s)>> \o InsertByScore(e, Tail(s))

RECURSIVE SortByScore(_)
SortByScore(s) ==
    IF s = << >> THEN << >>
    ELSE InsertByScore(s[Len(s)], SortByScore(SubSeq(s, 1, Len(s) - 1)))

(***************************************************************************)
(* Requests                                                                *)
(***************************************************************************)
NoDoc == [none |-> TRUE]

Idle ==
    [op |-> "none", pc |-> "idle", id |-> NULL, actor |-> NULL, arg |-> NULL,
     flag |-> FALSE, don |-> NoDonation, drv |-> NoDoc, all |-> << >>,
     i |-> 0, elig |-> << >>, res |-> "none"]

\* the response of a finished request; the handler's locals are gone
\* (an assignment reports the driver it bound, the advisory route its ranked list,
\* a creation the donor of the new donation, a reservation its caller, the other
\* routes only their outcome)
Respond(r, code) ==
    [Idle EXCEPT !.op = r.op, !.id = r.id, !.res = code,
                 !.arg = IF r.op \in {"assign", "auto_assign"} THEN r.arg ELSE NULL,
                 !.actor = IF r.op \in {"create", "reserve"} THEN r.actor ELSE NULL,
                 !.elig = IF r.op = "advisory" /\ code = "ok" THEN r.elig ELSE << >>]

Begin(op, id, actor, arg, flag) ==
    [Idle EXCEPT !.op = op, !.id = id, !.actor = actor, !.arg = arg, !.flag = flag]

\* no ranking computed outside a request
NoRank == [pool |-> << >>, ranked |-> << >>, by |-> "none"]

\* no helper function is being evaluated on its own
NoCalc ==
    [fn |-> "none", arg |-> [foodItems |-> << >>, vehicleCapacity |-> "medium"],
     numeric |-> TRUE, out |-> 0]

CanStart(p) == req[p].pc = "idle" /\ started < MaxRequests

(***************************************************************************)
(* Initial stores.  Each is the store after the sequential run of requests *)
(* named beside it, starting from empty collections; the users are the two *)
(* drivers of the scoring scenario, one donor, one receiver, one admin.    *)
(***************************************************************************)
RegisteredUsers ==
    [u \in Users |->
        IF u = "v1" THEN NewUser(u, "medium", 90, 5)
        ELSE IF u = "v2" THEN NewUser(u, "large", 100, 20)
        ELSE NewUser(u, "medium", 100, 0)]

Available == NewDonation("o1", 90, TRUE)
Reserved == [Available EXCEPT !.receiver = "r1", !.status = "reserved"]
\* a donation of 200 kg: more than a medium vehicle carries
ReservedHeavy == [Reserved EXCEPT !.foodQuantity = 200]
AssignedTo(v) == [Reserved EXCEPT !.driver = v, !.status = "assigned"]
PickedUpBy(v) == [Reserved EXCEPT !.driver = v, !.status = "picked_up"]

\* create d1
StoreCreated ==
    [donations |-> [d \in Donations |-> IF d = "d1" THEN Available ELSE NoDonation],
     users |-> RegisteredUsers]

\* create d1, d2; reserve d1, d2
StoreReserved ==
    [donations |-> [d \in Donations |-> IF d = "d1" THEN Reserved ELSE ReservedHeavy],
     users |-> RegisteredUsers]

\* ...; assign-driver d1 v1
StoreAssigned ==
    [donations |-> [d \in Donations |-> IF d = "d1" THEN AssignedTo("v1") ELSE ReservedHeavy],
     users |-> [RegisteredUsers EXCEPT !["v1"].driverStatus = "busy"]]

\* ...; drivers/v1/status available; assign-driver d2 v1; status d1 picked_up
StorePickedUp ==
    [donations |-> [d \in Donations |-> IF d = "d1" THEN PickedUpBy("v1") ELSE AssignedTo("v1")],
     users |-> [RegisteredUsers EXCEPT !["v1"].driverStatus = "busy"]]

\* as StoreReserved, with v2 registered at an address on the prime meridian (lng: 0)
StoreMeridian ==
    [donations |-> StoreReserved.donations,
     users |-> [RegisteredUsers EXCEPT !["v2"].zeroCoordinate = TRUE]]

\* create d1; reserve d1 by r1; status d1 available (the receiver stays)
StoreReleased ==
    [donations |-> [d \in Donations |->
                       IF d = "d1" THEN [Available EXCEPT !.receiver = "r1"] ELSE NoDonation],
     users |-> RegisteredUsers]

InitStores ==
    {StoreCreated, StoreReserved, StoreAssigned, StorePickedUp, StoreMeridian, StoreReleased}

Init ==
    /\ \E s \in InitStores : donations = s.donations /\ users = s.users
    /\ req = [p \in Procs |-> Idle]
    /\ started = 0
    /\ rank = NoRank
    /\ calc = NoCalc


\* inputs the clients send
CreateQuantities == {90}
CreateCoordinates == {TRUE}
\* the callers have passed authenticate/authorize: each has a role the route admits
AssignDriverArgs == Drivers \cup {NULL}
StatusActors == Donors \cup Receivers \cup Drivers
StatusArgs == (Statuses \X {FALSE}) \cup {<<"delivered", TRUE>>}
AdminTargets == {"v1", "r1"}
AdminDriverStatusArgs == {"available", NULL}
\* req.body.isActive: undefined or false
AdminIsActiveArgs == {NULL, "false"}

Finish(p, code) == req' = [req EXCEPT ![p] = Respond(req[p], code)]
Goto(p, label) == req' = [req EXCEPT ![p].pc = label]

(***************************************************************************)
(* POST /api/donations                                                     *)
(***************************************************************************)
FreeSlots == {k \in 1..Len(DonationOrder) : donations[DonationOrder[k]].status = "absent"}

CreateDonation(p, actor, qty, coords) ==
    /\ CanStart(p)
    /\ started' = started + 1
    /\ UNCHANGED <<calc, rank, users>>
    /\ FreeSlots # {}
    /\ LET k == CHOOSE x \in FreeSlots : \A y \in FreeSlots : x <= y
           d == DonationOrder[k]
       IN /\ donations' = [donations EXCEPT ![d] = NewDonation(actor, qty, coords)]
          /\ req' = [req EXCEPT ![p] = Respond(Begin("create", d, actor, NULL, FALSE), "ok")]

(***************************************************************************)
(* PATCH /api/donations/:id/reserve                                        *)
(***************************************************************************)
ReserveRead(p, d, actor) ==
    /\ CanStart(p)
    /\ started' = started + 1
    /\ UNCHANGED <<calc, rank, donations, users>>
    /\ LET r == Begin("reserve", d, actor, NULL, FALSE)
           donation == donations[d]
       IN req' = [req EXCEPT ![p] =
            IF donation.status = "absent" THEN Respond(r, "not_found")
            ELSE IF donation.status # "available" THEN Respond(r, "bad_request")
            ELSE [r EXCEPT !.pc = "reserve_save", !.don = donation]]

\* the reserve write storing the caller as the donor
ReserveSaveAsDonor(p) ==
    /\ req[p].pc = "reserve_save"
    /\ LET r == req[p]
           new == [r.don EXCEPT !.donor = r.actor, !.status = "reserved"]
       IN donations' = [donations EXCEPT ![r.id] = Save(@, r.don, new)]
    /\ Finish(p, "ok")
    /\ UNCHANGED <<calc, rank, users, started>>

ReserveSave(p) ==
    /\ req[p].pc = "reserve_save"
    /\ LET r == req[p]
           new == [r.don EXCEPT !.receiver = r.actor, !.status = "reserved"]
       IN donations' = [donations EXCEPT ![r.id] = Save(@, r.don, new)]
    /\ Finish(p, "ok")
    /\ UNCHANGED <<calc, rank, users, started>>

(***************************************************************************)
(* PATCH /api/donations/:id/assign-driver                                  *)
(***************************************************************************)
AssignRead(p, d, driver) ==
    /\ CanStart(p)
    /\ started' = started + 1
    /\ UNCHANGED <<calc, rank, donations, users>>
    /\ LET r == Begin("assign", d, NULL, driver, FALSE)
           donation == donations[d]
       IN req' = [req EXCEPT ![p] =
            IF donation.status = "absent" THEN Respond(r, "not_found")
            ELSE IF donation.status # "reserved" THEN Respond(r, "bad_request")
            ELSE [r EXCEPT !.pc = "assign_find_driver", !.don = donation]]

AssignFindDriver(p) ==
    /\ req[p].pc = "assign_find_driver"
    /\ UNCHANGED <<calc, rank, donations, users, started>>
    /\ LET r == req[p]
       IN req' = [req EXCEPT ![p] =
            IF r.arg \notin Users THEN Respond(r, "not_found")
            ELSE IF users[r.arg].userType # "driver" THEN Respond(r, "not_found")
            ELSE IF users[r.arg].driverStatus # "available" THEN Respond(r, "bad_request")
            ELSE [r EXCEPT !.pc = "assign_save_donation", !.drv = users[r.arg]]]

AssignSaveDonation(p) ==
    /\ req[p].pc = "assign_save_donation"
    /\ LET r == req[p]
           new == [r.don EXCEPT !.driver = r.arg, !.status = "assigned"]
       IN donations' = [donations EXCEPT ![r.id] = Save(@, r.don, new)]
    /\ Goto(p, "assign_save_driver")
    /\ UNCHANGED <<calc, rank, users, started>>

AssignSaveDriver(p) ==
    /\ req[p].pc = "assign_save_driver"
    /\ LET r == req[p]
           new == [r.drv EXCEPT !.driverStatus = "busy"]
       IN users' = [users EXCEPT ![r.arg] = Save(@, r.drv, new)]
    /\ Finish(p, "ok")
    /\ UNCHANGED <<calc, rank, donations, started>>

(***************************************************************************)
(* PATCH /api/donations/:id/status                                         *)
(***************************************************************************)
canUpdate(donation, userId) ==
    \/ donation.donor = userId
    \/ donation.receiver = userId
    \/ donation.driver = userId

StatusRead(p, d, actor, status, withDeliveryTime) ==
    /\ CanStart(p)
    /\ started' = started + 1
    /\ UNCHANGED <<calc, rank, donations, users>>
    /\ LET r == Begin("status", d, actor, status, withDeliveryTime)
           donation == donations[d]
       IN req' = [req EXCEPT ![p] =
            IF donation.status = "absent" THEN Respond(r, "not_found")
            ELSE IF ~canUpdate(donation, actor) THEN Respond(r, "forbidden")
            ELSE [r EXCEPT !.pc = "status_save", !.don = donation]]

StatusSave(p) ==
    /\ req[p].pc = "status_save"
    /\ LET r == req[p]
           new == [r.don EXCEPT !.status = r.arg,
                                !.actualDeliveryTime = IF r.flag THEN TRUE ELSE @]
       IN /\ donations' = [donations EXCEPT ![r.id] = Save(@, r.don, new)]
          /\ IF r.arg = "delivered" /\ r.don.driver # NULL
             THEN Goto(p, "sync_find")
             ELSE Finish(p, "ok")
    /\ UNCHANGED <<calc, rank, users, started>>

(***************************************************************************)
(* Driver status synchronisation after a delivery                          *)
(***************************************************************************)
SyncFind(p) ==
    /\ req[p].pc = "sync_find"
    /\ req' = [req EXCEPT ![p].pc = "sync_count", ![p].drv = users[req[p].don.driver]]
    /\ UNCHANGED <<calc, rank, donations, users, started>>

SyncCount(p) ==
    /\ req[p].pc = "sync_count"
    /\ LET activeAssignments == CountActive(req[p].don.driver, req[p].id)
       IN IF activeAssignments = 0 THEN Goto(p, "sync_save") ELSE Finish(p, "ok")
    /\ UNCHANGED <<calc, rank, donations, users, started>>

SyncSave(p) ==
    /\ req[p].pc = "sync_save"
    /\ LET r == req[p]
           new == [r.drv EXCEPT !.driverStatus = "available"]
       IN users' = [users EXCEPT ![r.don.driver] = Save(@, r.drv, new)]
    /\ Finish(p, "ok")
    /\ UNCHANGED <<calc, rank, donations, started>>

(***************************************************************************)
(* PATCH /api/donations/:id/delivery-proof                                 *)
(***************************************************************************)
ProofRead(p, d, actor) ==
    /\ CanStart(p)
    /\ started' = started + 1
    /\ UNCHANGED <<calc, rank, donations, users>>
    /\ LET r == Begin("proof", d, actor, NULL, FALSE)
           donation == donations[d]
       IN req' = [req EXCEPT ![p] =
            IF donation.status = "absent" THEN Respond(r, "not_found")
            ELSE IF donation.driver # actor THEN Respond(r, "forbidden")
            ELSE IF donation.status # "picked_up" THEN Respond(r, "bad_request")
            ELSE [r EXCEPT !.pc = "proof_save", !.don = donation]]

ProofSave(p) ==
    /\ req[p].pc = "proof_save"
    /\ LET r == req[p]
           new == [r.don EXCEPT !.deliveryProof = TRUE, !.status = "delivered",
                                !.actualDeliveryTime = TRUE]
       IN donations' = [donations EXCEPT ![r.id] = Save(@, r.don, new)]
    /\ IF req[p].don.driver # NULL THEN Goto(p, "sync_find") ELSE Finish(p, "ok")
    /\ UNCHANGED <<calc, rank, users, started>>

(***************************************************************************)
(* PATCH /api/drivers/:id/status                                           *)
(***************************************************************************)
DriverStatusRead(p, target, status) ==
    /\ CanStart(p)
    /\ started' = started + 1
    /\ UNCHANGED <<calc, rank, donations, users>>
    /\ LET r == Begin("driver_status", target, NULL, status, FALSE)
       IN req' = [req EXCEPT ![p] =
            IF status \notin DriverStatuses THEN Respond(r, "bad_request")
            ELSE IF users[target].userType # "driver" THEN Respond(r, "not_found")
            ELSE [r EXCEPT !.pc = "driver_status_save", !.drv = users[target]]]

DriverStatusSave(p) ==
    /\ req[p].pc = "driver_status_save"
    /\ LET r == req[p]
           new == [r.drv EXCEPT !.driverStatus = r.arg]
       IN users' = [users EXCEPT ![r.id] = Save(@, r.drv, new)]
    /\ Finish(p, "ok")
    /\ UNCHANGED <<calc, rank, donations, started>>

(***************************************************************************)
(* PATCH /api/admin/users/:id                                              *)
(***************************************************************************)
AdminUpdateRead(p, target, driverStatus, isActive) ==
    /\ CanStart(p)
    /\ started' = started + 1
    /\ UNCHANGED <<calc, rank, donations, users>>
    /\ LET r == Begin("admin_update", target, NULL, <<driverStatus, isActive>>, FALSE)
       IN req' = [req EXCEPT ![p] =
            [r EXCEPT !.pc = "admin_update_save", !.drv = users[target]]]

AdminUpdateSave(p) ==
    /\ req[p].pc = "admin_update_save"
    /\ LET r == req[p]
           driverStatus == r.arg[1]
           isActive == r.arg[2]
           active == IF isActive # NULL THEN [r.drv EXCEPT !.isActive = (isActive = "true")]
                     ELSE r.drv
           new == IF /\ driverStatus # NULL /\ r.drv.userType = "driver"
                     /\ driverStatus \in DriverStatuses
                  THEN [active EXCEPT !.driverStatus = driverStatus]
                  ELSE active
       IN users' = [users EXCEPT ![r.id] = Save(@, r.drv, new)]
    /\ Finish(p, "ok")
    /\ UNCHANGED <<calc, rank, donations, started>>

(***************************************************************************)
(* services/driverAssignment.js: assignDriver(donationId)                  *)
(***************************************************************************)
\* User.find({userType: 'driver', driverStatus: 'available', isActive: true, lat, lng})
RECURSIVE FindAvailableDrivers(_)
FindAvailableDrivers(k) ==
    IF k > Len(DriverOrder) THEN << >>
    ELSE LET u == DriverOrder[k]
             doc == users[u]
         IN (IF /\ doc.userType = "driver"
                /\ doc.driverStatus = "available"
                /\ doc.isActive
                /\ doc.coordinates
             THEN <<[id |-> u, doc |-> doc]>>
             ELSE << >>) \o FindAvailableDrivers(k + 1)

AutoAssignRead(p, d) ==
    /\ CanStart(p)
    /\ started' = started + 1
    /\ UNCHANGED <<calc, rank, donations, users>>
    /\ LET r == Begin("auto_assign", d, NULL, NULL, FALSE)
           donation == donations[d]
       IN req' = [req EXCEPT ![p] =
            IF donation.status = "absent" THEN Respond(r, "error")
            ELSE IF \/ ~donation.coordinates
                    \/ donation.receiver = NULL
                    \/ ~users[donation.receiver].coordinates
                 THEN Respond(r, "missing_location")
            ELSE [r EXCEPT !.pc = "auto_find_drivers", !.don = donation]]

AutoFindDrivers(p) ==
    /\ req[p].pc = "auto_find_drivers"
    /\ UNCHANGED <<calc, rank, donations, users, started>>
    /\ LET allDrivers == FindAvailableDrivers(1)
       IN IF Len(allDrivers) = 0
          THEN Finish(p, "no_drivers")
          ELSE req' = [req EXCEPT ![p].pc = "auto_is_available",
                                  ![p].all = allDrivers, ![p].i = 1]

\* the rest of one loop iteration, and the code after the loop when it was the last
AutoNext(p, eligibleDrivers) ==
    LET r == req[p]
    IN IF r.i < Len(r.all)
       THEN req' = [req EXCEPT ![p].pc = "auto_is_available", ![p].i = r.i + 1,
                               ![p].elig = eligibleDrivers]
       ELSE IF Len(eligibleDrivers) = 0
       THEN Finish(p, "no_drivers")
       ELSE req' = [req EXCEPT ![p].pc = "auto_save_donation",
                               ![p].elig = SortByScore(eligibleDrivers)]

\* isDriverAvailable: User.findById and the status check
AutoIsAvailable(p) ==
    /\ req[p].pc = "auto_is_available"
    /\ UNCHANGED <<calc, rank, donations, users, started>>
    /\ LET r == req[p]
           driver == users[r.all[r.i].id]
       IN IF driver.userType # "driver" \/ driver.driverStatus # "available"
          THEN AutoNext(p, r.elig)
          ELSE Goto(p, "auto_count")

\* the loop body without its capacity filter
AutoCountAnyCapacity(p) ==
    /\ req[p].pc = "auto_count"
    /\ UNCHANGED <<calc, rank, donations, users, started>>
    /\ LET r == req[p]
           driver == r.all[r.i]
           activeAssignments == CountActive(driver.id, NULL)
           entry == CommitEntry(driver, r.don.foodQuantity)
       IN IF activeAssignments # 0 THEN AutoNext(p, r.elig)
          ELSE AutoNext(p, Append(r.elig, entry))

\* isDriverAvailable: countDocuments; then capacity filter and score
AutoCount(p) ==
    /\ req[p].pc = "auto_count"
    /\ UNCHANGED <<calc, rank, donations, users, started>>
    /\ LET r == req[p]
           driver == r.all[r.i]
           activeAssignments == CountActive(driver.id, NULL)
           foodQuantity == r.don.foodQuantity
           vehicleCapacity == getVehicleCapacityKg(driver.doc.vehicleCapacity)
           entry == CommitEntry(driver, foodQuantity)
       IN IF activeAssignments # 0 THEN AutoNext(p, r.elig)
          ELSE IF vehicleCapacity < foodQuantity THEN AutoNext(p, r.elig)
          ELSE AutoNext(p, Append(r.elig, entry))

AutoSaveDonation(p) ==
    /\ req[p].pc = "auto_save_donation"
    /\ LET r == req[p]
           bestDriver == r.elig[1]
           new == [r.don EXCEPT !.driver = bestDriver.driver, !.status = "assigned"]
       IN /\ donations' = [donations EXCEPT ![r.id] = Save(@, r.don, new)]
          /\ req' = [req EXCEPT ![p].pc = "auto_save_driver", ![p].arg = bestDriver.driver,
                                ![p].drv = bestDriver.doc, ![p].all = << >>,
                                ![p].elig = << >>, ![p].i = 0]
    /\ UNCHANGED <<calc, rank, users, started>>

AutoSaveDriver(p) ==
    /\ req[p].pc = "auto_save_driver"
    /\ LET r == req[p]
           new == [r.drv EXCEPT !.driverStatus = "busy"]
       IN users' = [users EXCEPT ![r.arg] = Save(@, r.drv, new)]
    /\ Finish(p, "ok")
    /\ UNCHANGED <<calc, rank, donations, started>>

(***************************************************************************)
(* GET /api/donations/:id/available-drivers                                *)
(***************************************************************************)
AdvisoryRead(p, d) ==
    /\ CanStart(p)
    /\ started' = started + 1
    /\ UNCHANGED <<calc, rank, donations, users>>
    /\ LET r == Begin("advisory", d, NULL, NULL, FALSE)
           donation == donations[d]
       IN req' = [req EXCEPT ![p] =
            IF donation.status = "absent" THEN Respond(r, "not_found")
            ELSE IF ~donation.coordinates THEN Respond(r, "missing_location")
            ELSE [r EXCEPT !.pc = "adv_find_drivers", !.don = donation]]

\* res.json({drivers: eligibleDrivers.sort(...), ...})
AdvisoryRespond(p, eligibleDrivers) ==
    req' = [req EXCEPT ![p] =
                Respond([req[p] EXCEPT !.elig = SortByScore(eligibleDrivers)], "ok")]

AdvisoryFindDrivers(p) ==
    /\ req[p].pc = "adv_find_drivers"
    /\ UNCHANGED <<calc, rank, donations, users, started>>
    /\ LET allDrivers == FindAvailableDrivers(1)
       IN IF Len(allDrivers) = 0
          THEN AdvisoryRespond(p, << >>)
          ELSE req' = [req EXCEPT ![p].pc = "adv_is_available",
                                  ![p].all = allDrivers, ![p].i = 1]

\* the rest of one loop iteration, and the code after the loop when it was the last
AdvisoryNext(p, eligibleDrivers) ==
    LET r == req[p]
    IN IF r.i < Len(r.all)
       THEN req' = [req EXCEPT ![p].pc = "adv_is_available", ![p].i = r.i + 1,
                               ![p].elig = eligibleDrivers]
       ELSE AdvisoryRespond(p, eligibleDrivers)

\* isDriverAvailable: User.findById and the status check
AdvisoryIsAvailable(p) ==
    /\ req[p].pc = "adv_is_available"
    /\ UNCHANGED <<calc, rank, donations, users, started>>
    /\ LET r == req[p]
           driver == users[r.all[r.i].id]
       IN IF driver.userType # "driver" \/ driver.driverStatus # "available"
          THEN AdvisoryNext(p, r.elig)
          ELSE Goto(p, "adv_count")

\* the loop body without its capacity filter
AdvisoryCountAnyCapacity(p) ==
    /\ req[p].pc = "adv_count"
    /\ UNCHANGED <<calc, rank, donations, users, started>>
    /\ LET r == req[p]
           driver == r.all[r.i]
           activeAssignments == CountActive(driver.id, NULL)
           entry == AdvisoryEntry(driver, r.don.foodQuantity)
       IN IF activeAssignments # 0 THEN AdvisoryNext(p, r.elig)
          ELSE IF ~driver.doc.coordinates \/ driver.doc.zeroCoordinate
               THEN AdvisoryNext(p, r.elig)
          ELSE AdvisoryNext(p, Append(r.elig, entry))

\* the loop body correcting the cached flag of a driver it finds occupied
AdvisoryCountRepairing(p) ==
    /\ req[p].pc = "adv_count"
    /\ UNCHANGED <<calc, rank, donations, started>>
    /\ LET r == req[p]
           driver == r.all[r.i]
           activeAssignments == CountActive(driver.id, NULL)
           foodQuantity == r.don.foodQuantity
           vehicleCapacity == getVehicleCapacityKg(driver.doc.vehicleCapacity)
           entry == AdvisoryEntry(driver, foodQuantity)
       IN /\ users' = IF activeAssignments # 0
                       THEN [users EXCEPT ![driver.id].driverStatus = "busy"]
                       ELSE users
          /\ IF activeAssignments # 0 THEN AdvisoryNext(p, r.elig)
             ELSE IF vehicleCapacity < foodQuantity THEN AdvisoryNext(p, r.elig)
             ELSE IF ~driver.doc.coordinates \/ driver.doc.zeroCoordinate
               THEN AdvisoryNext(p, r.elig)
             ELSE AdvisoryNext(p, Append(r.elig, entry))

\* isDriverAvailable: countDocuments; then capacity filter, location filter and score
AdvisoryCount(p) ==
    /\ req[p].pc = "adv_count"
    /\ UNCHANGED <<calc, rank, donations, users, started>>
    /\ LET r == req[p]
           driver == r.all[r.i]
           activeAssignments == CountActive(driver.id, NULL)
           foodQuantity == r.don.foodQuantity
           vehicleCapacity == getVehicleCapacityKg(driver.doc.vehicleCapacity)
           entry == AdvisoryEntry(driver, foodQuantity)
       IN IF activeAssignments # 0 THEN AdvisoryNext(p, r.elig)
          ELSE IF vehicleCapacity < foodQuantity THEN AdvisoryNext(p, r.elig)
          ELSE IF ~driver.doc.coordinates \/ driver.doc.zeroCoordinate
               THEN AdvisoryNext(p, r.elig)
          ELSE AdvisoryNext(p, Append(r.elig, entry))

(***************************************************************************)
(* Specification                                                           *)
(***************************************************************************)
Next ==
    \E p \in Procs :
        \/ \E a \in Donors, q \in CreateQuantities, c \in CreateCoordinates :
               CreateDonation(p, a, q, c)
        \/ \E d \in Donations, a \in Receivers : ReserveRead(p, d, a)
        \/ ReserveSave(p)
        \/ \E d \in Donations, v \in AssignDriverArgs : AssignRead(p, d, v)
        \/ AssignFindDriver(p)
        \/ AssignSaveDonation(p)
        \/ AssignSaveDriver(p)
        \/ \E d \in Donations, a \in StatusActors, s \in StatusArgs :
               StatusRead(p, d, a, s[1], s[2])
        \/ StatusSave(p)
        \/ SyncFind(p)
        \/ SyncCount(p)
        \/ SyncSave(p)
        \/ \E d \in Donations, a \in Drivers : ProofRead(p, d, a)
        \/ ProofSave(p)
        \/ \E u \in Drivers, s \in DriverStatuses : DriverStatusRead(p, u, s)
        \/ DriverStatusSave(p)
        \/ \E u \in AdminTargets, s \in AdminDriverStatusArgs, a \in AdminIsActiveArgs :
               AdminUpdateRead(p, u, s, a)
        \/ AdminUpdateSave(p)
        \/ \E d \in Donations : AutoAssignRead(p, d)
        \/ AutoFindDrivers(p)
        \/ AutoIsAvailable(p)
        \/ AutoCount(p)
        \/ AutoSaveDonation(p)
        \/ AutoSaveDriver(p)
        \/ \E d \in Donations : AdvisoryRead(p, d)
        \/ AdvisoryFindDrivers(p)
        \/ AdvisoryIsAvailable(p)
        \/ AdvisoryCount(p)

Spec == Init /\ [][Next]_vars

(***************************************************************************)
(* Ranking as a function of the driver pool: the scoring loop and the sort *)
(* of assignDriver and of the advisory route, applied to a pool of drivers *)
(* that all pass the filters, for a donation of the scenario's quantity.   *)
(***************************************************************************)
\* largest pool User.find returns
MaxPool == 2

RankDrivers == {"v1", "v2", "v3"}
RankReputations == {96, 100}
RankDistances == {0, 3}

PoolEntries ==
    {[id |-> u,
      doc |-> [RegisteredUsers["v1"] EXCEPT !.reputationScore = rep, !.distance = dist]] :
        u \in RankDrivers, rep \in RankReputations, dist \in RankDistances}

\* every order in which the store may return every set of at most MaxPool drivers
Pools ==
    UNION {{pl \in [1..n -> PoolEntries] :
               \A i, j \in 1..n : i # j => pl[i].id # pl[j].id} : n \in 1..MaxPool}

InitRank ==
    /\ donations = StoreReserved.donations
    /\ users = StoreReserved.users
    /\ req = [p \in Procs |-> Idle]
    /\ started = 0
    /\ calc = NoCalc
    /\ \E pl \in Pools : rank = [pool |-> pl, ranked |-> << >>, by |-> "none"]

\* assignDriver: push one entry per driver, then sort
RankByCommit ==
    /\ rank.by = "none"
    /\ rank' = [rank EXCEPT
                   !.ranked = SortByScore([k \in 1..Len(rank.pool) |->
                                  CommitEntry(rank.pool[k], Available.foodQuantity)]),
                   !.by = "commit"]
    /\ UNCHANGED <<calc, donations, users, req, started>>

\* the advisory route: push one entry per driver, then sort
RankByAdvisory ==
    /\ rank.by = "none"
    /\ rank' = [rank EXCEPT
                   !.ranked = SortByScore([k \in 1..Len(rank.pool) |->
                                  AdvisoryEntry(rank.pool[k], Available.foodQuantity)]),
                   !.by = "advisory"]
    /\ UNCHANGED <<calc, donations, users, req, started>>

NextRank == RankByCommit \/ RankByAdvisory

SpecRank == InitRank /\ [][NextRank]_vars

(***************************************************************************)
(* The helper functions of services/driverAssignment.js evaluated on their *)
(* own: one evaluation of calculateFoodQuantity or getVehicleCapacityKg on *)
(* an argument drawn from the sets below.                                  *)
(***************************************************************************)
\* longest list of food items
MaxItems == 2

\* the units of the schema and one the switch does not know
ItemUnits == {"kg", "liters", "boxes", "packets", "pieces", "bags"}
ItemQuantities == {1, 3}
FoodItems == {[quantity |-> q, unit |-> u] : q \in ItemQuantities, u \in ItemUnits}
ItemLists == UNION {[1..n -> FoodItems] : n \in 0..MaxItems}

\* the classes of the schema, an unknown one, an absent one (undefined) and
\* one that names a member of Object.prototype
VehicleClasses == {"small", "medium", "large", "xl", NULL, "constructor"}

InitCalc ==
    /\ donations = StoreReserved.donations
    /\ users = StoreReserved.users
    /\ req = [p \in Procs |-> Idle]
    /\ started = 0
    /\ rank = NoRank
    /\ \E il \in ItemLists, c \in VehicleClasses :
          calc = [NoCalc EXCEPT !.arg = [foodItems |-> il, vehicleCapacity |-> c]]

CalcFoodQuantity ==
    /\ calc.fn = "none"
    /\ calc' = [calc EXCEPT !.fn = "calculateFoodQuantity",
                            !.out = calculateFoodQuantity(calc.arg.foodItems)]
    /\ UNCHANGED <<donations, users, req, started, rank>>

CalcVehicleCapacity ==
    /\ calc.fn = "none"
    /\ calc' = [calc EXCEPT !.fn = "getVehicleCapacityKg",
                            !.numeric = calc.arg.vehicleCapacity \notin ObjectPrototypeKeys,
                            !.out = getVehicleCapacityKg(calc.arg.vehicleCapacity)]
    /\ UNCHANGED <<donations, users, req, started, rank>>

NextCalc == CalcFoodQuantity \/ CalcVehicleCapacity

SpecCalc == InitCalc /\ [][NextCalc]_vars

(***************************************************************************)
(* Storage faults.  Every await of a handler after its first read may      *)
(* reject; the rejection reaches the handler's catch block, which answers  *)
(* 500 (the routes) or {success: false} (assignDriver) and undoes nothing. *)
(***************************************************************************)
StorageFault(p) ==
    /\ req[p].pc # "idle"
    /\ Finish(p, "error")
    /\ UNCHANGED <<calc, rank, donations, users, started>>

NextFault == Next \/ \E p \in Procs : StorageFault(p)

SpecFault == Init /\ [][NextFault]_vars

(***************************************************************************)
(* A delivery that overlaps an assignment in flight.  The run starts in    *)
(* the state the system is in when, from d1 and d2 reserved and v1         *)
(* available, assign-driver d2 v1 has read d2 and v1 (part_001:243-261)    *)
(* and, before its writes, assign-driver d1 v1 and status d1 picked_up     *)
(* have run to completion.  One more request may start: a status update or *)
(* a delivery proof.                                                       *)
(***************************************************************************)
AssignInFlight ==
    [Begin("assign", "d2", NULL, "v1", FALSE) EXCEPT
        !.pc = "assign_save_donation", !.don = Reserved, !.drv = RegisteredUsers["v1"]]

InitRace ==
    /\ donations = [d \in Donations |-> IF d = "d1" THEN PickedUpBy("v1") ELSE Reserved]
    /\ users = [RegisteredUsers EXCEPT !["v1"].driverStatus = "busy"]
    /\ req = [p \in Procs |-> IF p = "p2" THEN AssignInFlight ELSE Idle]
    /\ started = MaxRequests - 1
    /\ rank = NoRank
    /\ calc = NoCalc

NextRace ==
    \E p \in Procs :
        \/ AssignSaveDonation(p)
        \/ AssignSaveDriver(p)
        \/ \E d \in Donations, actor \in StatusActors, a \in StatusArgs :
              StatusRead(p, d, actor, a[1], a[2])
        \/ StatusSave(p)
        \/ SyncFind(p)
        \/ SyncCount(p)
        \/ SyncSave(p)
        \/ \E d \in Donations, actor \in Drivers : ProofRead(p, d, actor)
        \/ ProofSave(p)

SpecRace == InitRace /\ [][NextRace]_vars

(***************************************************************************)
(* Vocabulary of the properties                                            *)
(***************************************************************************)
AssignOps == {"assign", "auto_assign"}
AllIdle == \A p \in Procs : req[p].pc = "idle"

\* p takes a step
Steps(p) == req'[p] # req[p]
\* p takes its last step and reports `code`
Completes(p, code) == req[p].pc # "idle" /\ req'[p].pc = "idle" /\ req'[p].res = code

\* the driver an assignment is about to bind
ChosenDriver(p) ==
    IF req[p].pc = "auto_save_donation" THEN req[p].elig[1].driver ELSE req[p].arg

\* the transition table of the donation lifecycle
TransitionTable ==
    {<<"available", "reserved">>, <<"reserved", "assigned">>,
     <<"assigned", "picked_up">>, <<"picked_up", "delivered">>}
    \cup {<<s, "cancelled">> : s \in {"available", "reserved", "assigned", "picked_up"}}

TerminalStatuses == {"delivered", "cancelled"}

(***************************************************************************)
(* C1: when a run consists of two assign requests (manual or auto) for two *)
(* different donations that name or select the same driver, and one of    *)
(* them reports success, then the other does not, and the driver ends      *)
(* bound to exactly one of the two donations.                              *)
(***************************************************************************)
C1_OneAssignWins ==
    \A p, q \in Procs :
        ( /\ p # q /\ AllIdle /\ started = 2
          /\ req[p].op \in AssignOps /\ req[q].op \in AssignOps
          /\ req[p].id # req[q].id
          /\ req[p].arg = req[q].arg /\ req[p].arg \in Drivers
          /\ req[p].res = "ok" )
        => /\ req[q].res # "ok"
           /\ Cardinality({d \in {req[p].id, req[q].id} :
                             donations[d].driver = req[p].arg}) = 1

(***************************************************************************)
(* C2: the donation write of an assign (manual or auto) changes the store  *)
(* only if, at that moment, the donation is still reserved and the chosen  *)
(* driver's occupancy is still available.                                  *)
(***************************************************************************)
C2_AssignWriteIsConditional ==
    [][\A p \in Procs :
          ( /\ req[p].pc \in {"assign_save_donation", "auto_save_donation"}
            /\ Steps(p)
            /\ donations' # donations )
          => /\ donations[req[p].id].status = "reserved"
             /\ users[ChosenDriver(p)].driverStatus = "available"]_vars

(***************************************************************************)
(* C3: the status write of UpdateStatus changes a donation's status only   *)
(* along a row of the transition table.                                    *)
(***************************************************************************)
C3_OnlyTableTransitions ==
    [][\A p \in Procs :
          ( /\ req[p].pc = "status_save"
            /\ Steps(p)
            /\ donations'[req[p].id].status # donations[req[p].id].status )
          => <<donations[req[p].id].status, donations'[req[p].id].status>>
                 \in TransitionTable]_vars

(***************************************************************************)
(* C4: once a donation is delivered or cancelled, no step of any request   *)
(* changes its status.                                                     *)
(***************************************************************************)
C4_TerminalIsFinal ==
    [][\A d \in Donations :
          donations[d].status \in TerminalStatuses
          => donations'[d].status = donations[d].status]_vars

(***************************************************************************)
(* C5: whenever no request is in flight, every driver's occupancy is busy  *)
(* exactly when the driver has a donation in assigned or picked_up.        *)
(***************************************************************************)
C5_OccupancyMatchesWhenQuiet ==
    AllIdle =>
        \A v \in Drivers :
            (users[v].driverStatus = "busy") <=> (CountActive(v, NULL) > 0)

(***************************************************************************)
(* C6: a driver's occupancy changes only in the driver write of an assign  *)
(* (manual or auto) or in the write of the status synchronisation.         *)
(***************************************************************************)
C6_OccupancyWriters ==
    [][\A v \in Drivers :
          users'[v].driverStatus # users[v].driverStatus
          => \E p \in Procs :
                /\ Steps(p)
                /\ req[p].pc \in {"assign_save_driver", "auto_save_driver", "sync_save"}]_vars

(***************************************************************************)
(* C7: when an assign (manual or auto) reports success, the donation is    *)
(* assigned, its driver is the chosen driver and that driver is busy.      *)
(***************************************************************************)
C7_AssignPostcondition ==
    [][\A p \in Procs :
          (req[p].op \in AssignOps /\ Completes(p, "ok"))
          => /\ donations'[req[p].id].status = "assigned"
             /\ donations'[req[p].id].driver = req[p].arg
             /\ users'[req[p].arg].driverStatus = "busy"]_vars

(***************************************************************************)
(* C8: when a delivery completion (UpdateStatus to delivered of a donation *)
(* with a driver, or UploadDeliveryProof) reports success, the bound       *)
(* driver is available if it has no other donation in assigned or          *)
(* picked_up, and busy otherwise.                                          *)
(***************************************************************************)
IsDelivery(p) ==
    /\ req[p].don.driver # NULL
    /\ \/ req[p].op = "proof"
       \/ req[p].op = "status" /\ req[p].arg = "delivered"

C8_SyncAfterDelivery ==
    [][\A p \in Procs :
          (IsDelivery(p) /\ Completes(p, "ok"))
          => users'[req[p].don.driver].driverStatus =
                 IF CountActiveIn(donations', req[p].don.driver, req[p].id) = 0
                 THEN "available" ELSE "busy"]_vars

(***************************************************************************)
(* C9: when the cancellation of a donation that was assigned or picked_up  *)
(* reports success, the bound driver is available if it has no other       *)
(* donation in assigned or picked_up.                                      *)
(***************************************************************************)
IsActiveCancel(p) ==
    /\ req[p].op = "status" /\ req[p].arg = "cancelled"
    /\ req[p].don.driver # NULL
    /\ req[p].don.status \in ActiveStatuses

C9_SyncAfterCancel ==
    [][\A p \in Procs :
          ( /\ IsActiveCancel(p) /\ Completes(p, "ok")
            /\ CountActiveIn(donations', req[p].don.driver, req[p].id) = 0 )
          => users'[req[p].don.driver].driverStatus = "available"]_vars

(***************************************************************************)
(* C10: a donation has a receiver exactly when its status is reserved,     *)
(* assigned, picked_up or delivered.                                       *)
(***************************************************************************)
C10_ReceiverIffStatus ==
    \A d \in Donations :
        donations[d].status # "absent"
        => ( (donations[d].receiver # NULL)
             <=> (donations[d].status \in {"reserved", "assigned", "picked_up", "delivered"}) )

(***************************************************************************)
(* C11: a donation that is assigned, picked_up or delivered has a driver,  *)
(* and a donation that is available or reserved has none.                  *)
(***************************************************************************)
C11_DriverIffStatus ==
    \A d \in Donations :
        /\ donations[d].status \in {"assigned", "picked_up", "delivered"}
              => donations[d].driver # NULL
        /\ donations[d].status \in {"available", "reserved"}
              => donations[d].driver = NULL

(***************************************************************************)
(* C12: a reserve request that finds no donation answers not found, one    *)
(* that finds a donation in a status other than available answers with an  *)
(* invalid-state error, and neither changes the store; one that finds the  *)
(* donation available goes on to a single write, which sets the receiver   *)
(* to the caller and the status to reserved, touches nothing else, and     *)
(* reports success.                                                        *)
(***************************************************************************)
C12_ReserveContract ==
    [][\A p \in Procs :
          /\ (req[p].pc = "idle" /\ Steps(p) /\ req'[p].op = "reserve")
                => LET st == donations[req'[p].id].status
                   IN /\ donations' = donations /\ users' = users
                      /\ st = "absent"
                            => req'[p].pc = "idle" /\ req'[p].res = "not_found"
                      /\ st \notin {"absent", "available"}
                            => req'[p].pc = "idle" /\ req'[p].res = "bad_request"
                      /\ st = "available" => req'[p].pc = "reserve_save"
          /\ (req[p].op = "reserve" /\ req[p].pc # "idle" /\ Steps(p))
                => /\ req[p].don.status = "available"
                   /\ Completes(p, "ok")
                   /\ donations'[req[p].id].receiver = req[p].actor
                   /\ donations'[req[p].id].status = "reserved"
                   /\ users' = users
                   /\ \A e \in Donations \ {req[p].id} : donations'[e] = donations[e]]_vars

(***************************************************************************)
(* C13: an assign-driver request that names no driver, on a reserved       *)
(* donation for which some driver is eligible, goes on to select and bind  *)
(* a driver: it does not end at the driver lookup.                         *)
(***************************************************************************)
Eligible(v) ==
    /\ users[v].userType = "driver"
    /\ users[v].isActive
    /\ users[v].driverStatus = "available"
    /\ users[v].coordinates
    /\ CountActive(v, NULL) = 0

C13_AutoSelectWhenOmitted ==
    [][\A p \in Procs :
          ( /\ req[p].op = "assign" /\ req[p].pc = "assign_find_driver"
            /\ req[p].arg = NULL
            /\ Steps(p)
            /\ \E v \in Drivers :
                  /\ Eligible(v)
                  /\ getVehicleCapacityKg(users[v].vehicleCapacity) >= req[p].don.foodQuantity )
          => req'[p].pc # "idle"]_vars

(***************************************************************************)
(* C14: when an assign-driver request that names a driver looks that       *)
(* driver up and the driver is not eligible at that moment (not active,    *)
(* not available, without coordinates, or with a donation in assigned or   *)
(* picked_up), the request ends there with the driver-unavailable error    *)
(* and the store unchanged.                                                *)
(***************************************************************************)
C14_ManualNeedsEligibility ==
    [][\A p \in Procs :
          ( /\ req[p].op = "assign" /\ req[p].pc = "assign_find_driver"
            /\ req[p].arg \in Drivers
            /\ Steps(p)
            /\ ~Eligible(req[p].arg) )
          => /\ Completes(p, "bad_request")
             /\ donations' = donations /\ users' = users]_vars

(***************************************************************************)
(* C15: an assign request (manual or auto) that read its donation in a     *)
(* status other than reserved writes nothing and does not report success.  *)
(***************************************************************************)
C15_AssignNeedsReserved ==
    [][\A p \in Procs :
          ( /\ req[p].op \in AssignOps /\ req[p].pc # "idle"
            /\ Steps(p)
            /\ req[p].don.status # "reserved" )
          => /\ donations' = donations /\ users' = users
             /\ ~Completes(p, "ok")]_vars

(***************************************************************************)
(* C16: while the auto-selecting commit searches for a driver it writes    *)
(* nothing; it leaves the search without a driver only with the            *)
(* no-eligible-driver failure; and it does leave it that way when no       *)
(* driver is available, active and located, or when the last candidate is  *)
(* too small for the donation and no candidate before it was kept.         *)
(***************************************************************************)
AutoSearch == {"auto_find_drivers", "auto_is_available", "auto_count"}

NoneAvailable ==
    \A v \in Drivers :
        ~(users[v].driverStatus = "available" /\ users[v].isActive /\ users[v].coordinates)

C16_NoEligibleDriver ==
    [][\A p \in Procs :
          (req[p].op = "auto_assign" /\ req[p].pc \in AutoSearch /\ Steps(p))
          => /\ donations' = donations /\ users' = users
             /\ req'[p].pc = "idle" => req'[p].res = "no_drivers"
             /\ (req[p].pc = "auto_find_drivers" /\ NoneAvailable)
                   => Completes(p, "no_drivers")
             /\ ( /\ req[p].pc = "auto_count"
                  /\ req[p].i = Len(req[p].all)
                  /\ req[p].elig = << >>
                  /\ getVehicleCapacityKg(req[p].all[req[p].i].doc.vehicleCapacity)
                        < req[p].don.foodQuantity )
                   => Completes(p, "no_drivers")]_vars

\* the commit has failed for want of capacity: the only available driver is too small
C16_Witness ==
    \E p \in Procs :
        /\ req[p].op = "auto_assign" /\ req[p].pc = "idle" /\ req[p].res = "no_drivers"
        /\ donations[req[p].id].status = "reserved"
        /\ donations[req[p].id].driver = NULL
        /\ \E v \in Drivers :
              /\ Eligible(v)
              /\ getVehicleCapacityKg(users[v].vehicleCapacity)
                    < donations[req[p].id].foodQuantity
        /\ \A v \in Drivers :
              Eligible(v) => getVehicleCapacityKg(users[v].vehicleCapacity)
                                < donations[req[p].id].foodQuantity

(***************************************************************************)
(* C17: on a donation that is assigned or picked_up, UpdateStatus performs *)
(* the write of a transition of the table only for an actor the guard of   *)
(* that row admits: the assigned driver for assigned -> picked_up and      *)
(* picked_up -> delivered, and the donor, receiver or driver of the        *)
(* donation for a cancellation.                                            *)
(***************************************************************************)
GuardAdmits(donation, actor, to) ==
    CASE to \in {"picked_up", "delivered"} -> actor = donation.driver
      [] to = "reserved" -> actor \in Receivers
      [] to = "assigned" -> actor \in {donation.donor, donation.receiver}
      [] OTHER -> actor \in {donation.donor, donation.receiver, donation.driver}

C17_GuardedByRole ==
    [][\A p \in Procs :
          ( /\ req[p].op = "status" /\ req[p].pc = "status_save"
            /\ Steps(p)
            /\ req[p].don.status \in ActiveStatuses
            /\ <<req[p].don.status, req[p].arg>> \in TransitionTable )
          => GuardAdmits(req[p].don, req[p].actor, req[p].arg)]_vars

(***************************************************************************)
(* C18: a delivery-proof request goes on to its write only when the        *)
(* donation it read is picked_up and bound to the caller, and is otherwise *)
(* refused with the store unchanged; the write sets the status to          *)
(* delivered, the proof and the delivery time and touches no driver; and   *)
(* when the request reports success the driver is available if it has no   *)
(* other donation in assigned or picked_up, and busy otherwise.            *)
(***************************************************************************)
C18_DeliveryProof ==
    [][\A p \in Procs :
          /\ (req[p].pc = "idle" /\ Steps(p) /\ req'[p].op = "proof")
                => LET donation == donations[req'[p].id]
                   IN /\ donations' = donations /\ users' = users
                      /\ donation.status # "picked_up" => req'[p].pc = "idle"
                      /\ req'[p].pc = "idle" => req'[p].res # "ok"
                      /\ req'[p].pc # "idle"
                            => /\ donation.status = "picked_up"
                               /\ donation.driver = req'[p].actor
          /\ (req[p].op = "proof" /\ req[p].pc = "proof_save" /\ Steps(p))
                => /\ donations'[req[p].id].status = "delivered"
                   /\ donations'[req[p].id].deliveryProof
                   /\ donations'[req[p].id].actualDeliveryTime
                   /\ users' = users
          /\ (req[p].op = "proof" /\ req[p].pc # "idle" /\ req'[p].pc = "idle")
                => /\ req'[p].res = "ok"
                   /\ users'[req[p].don.driver].driverStatus =
                         IF CountActiveIn(donations', req[p].don.driver, req[p].id) = 0
                         THEN "available" ELSE "busy"]_vars

(***************************************************************************)
(* C19: every entry the advisory route or the auto-selecting commit keeps  *)
(* in its list of eligible drivers, and so every entry of the list the     *)
(* advisory route returns, is a driver whose vehicle capacity in kg is at  *)
(* least the donation's quantity in kg; and the driver the commit binds    *)
(* has at least that capacity.                                             *)
(***************************************************************************)
RankingOps == {"advisory", "auto_assign"}

C19_CapacityFilter ==
    [][\A p \in Procs :
          (req[p].op \in RankingOps /\ req[p].pc # "idle" /\ Steps(p))
          => /\ \A k \in 1..Len(req'[p].elig) :
                   LET e == req'[p].elig[k]
                   IN /\ e.capacity = getVehicleCapacityKg(users[e.driver].vehicleCapacity)
                      /\ e.capacity >= req[p].don.foodQuantity
             /\ req[p].pc = "auto_save_donation"
                   => getVehicleCapacityKg(users[donations'[req[p].id].driver].vehicleCapacity)
                         >= req[p].don.foodQuantity]_vars

\* the advisory list for the 200 kg donation holds the large vehicle only, although
\* the driver of the medium vehicle is eligible in every other respect
C19_Witness ==
    \E p \in Procs :
        /\ req[p].op = "advisory" /\ req[p].pc = "idle" /\ req[p].res = "ok"
        /\ donations[req[p].id].foodQuantity = 200
        /\ Len(req[p].elig) = 1 /\ req[p].elig[1].driver = "v2"
        /\ Eligible("v1")

(***************************************************************************)
(* C20: in a ranked list every entry precedes every later entry in the     *)
(* order by lower score, then lower distance, then higher reputation, then *)
(* smaller identity; the list, and with it the driver a commit selects,    *)
(* is then the same for every order of the pool.                           *)
(***************************************************************************)
IdentityOrder == <<"v1", "v2", "v3">>
IdentityRank(u) == CHOOSE k \in 1..Len(IdentityOrder) : IdentityOrder[k] = u
PoolDoc(u) == (CHOOSE k \in 1..Len(rank.pool) : rank.pool[k].id = u)

Precedes(a, b) ==
    LET da == rank.pool[PoolDoc(a.driver)].doc
        db == rank.pool[PoolDoc(b.driver)].doc
    IN \/ a.score < b.score
       \/ /\ a.score = b.score
          /\ \/ da.distance < db.distance
             \/ /\ da.distance = db.distance
                /\ \/ da.reputationScore > db.reputationScore
                   \/ /\ da.reputationScore = db.reputationScore
                      /\ IdentityRank(a.driver) < IdentityRank(b.driver)

C20_RankingTotalOrder ==
    rank.by # "none"
    => \A i, j \in 1..Len(rank.ranked) :
          i < j => Precedes(rank.ranked[i], rank.ranked[j])

(***************************************************************************)
(* C21: no step of an advisory request, whatever the request's outcome,    *)
(* changes a donation or a user.                                           *)
(***************************************************************************)
C21_AdvisoryReadOnly ==
    [][\A p \in Procs :
          ( /\ Steps(p)
            /\ \/ req[p].op = "advisory" /\ req[p].pc # "idle"
               \/ req[p].pc = "idle" /\ req'[p].op = "advisory" )
          => donations' = donations /\ users' = users]_vars

\* an advisory request has listed a driver while another driver, whose cached flag
\* says available, holds an active donation
C21_Witness ==
    \E p \in Procs :
        /\ req[p].op = "advisory" /\ req[p].pc = "idle" /\ req[p].res = "ok"
        /\ Len(req[p].elig) > 0
        /\ \E v \in Drivers :
              users[v].driverStatus = "available" /\ CountActive(v, NULL) > 0

(***************************************************************************)
(* C22: a matching request (advisory or auto-selecting commit) on an       *)
(* existing donation is refused for a missing location exactly when the    *)
(* donation has no pickup coordinates, and the refusal changes nothing.    *)
(***************************************************************************)
C22_MissingLocationIffNoPickup ==
    [][\A p \in Procs :
          ( /\ req[p].pc = "idle" /\ Steps(p)
            /\ req'[p].op \in RankingOps
            /\ donations[req'[p].id].status # "absent" )
          => /\ (req'[p].pc = "idle" /\ req'[p].res = "missing_location")
                   <=> ~donations[req'[p].id].coordinates
             /\ donations' = donations /\ users' = users]_vars

(***************************************************************************)
(* C23: a driver who has a donation in assigned or picked_up is not added  *)
(* to a list of eligible drivers and does not pass the driver check of a   *)
(* manual assignment, whatever the driver's cached flag says.              *)
(***************************************************************************)
C23_LiveCountAuthoritative ==
    [][\A p \in Procs :
          /\ ( /\ req[p].op \in RankingOps /\ req[p].pc # "idle" /\ Steps(p)
               /\ req'[p].pc # "idle"
               /\ Len(req'[p].elig) > Len(req[p].elig) )
                => CountActive(req'[p].elig[Len(req'[p].elig)].driver, NULL) = 0
          /\ ( /\ req[p].op = "assign" /\ req[p].pc = "assign_find_driver"
               /\ Steps(p)
               /\ req'[p].pc # "idle" )
                => CountActive(req[p].arg, NULL) = 0]_vars

(***************************************************************************)
(* C24: the step that creates a donation fills an empty slot with a        *)
(* donation whose status is available, whose receiver and driver are null  *)
(* and whose donor is the caller.                                          *)
(***************************************************************************)
C24_CreateInitialState ==
    [][\A p \in Procs :
          (req[p].pc = "idle" /\ Steps(p) /\ req'[p].op = "create")
          => LET d == req'[p].id
             IN /\ donations[d].status = "absent"
                /\ donations'[d].status = "available"
                /\ donations'[d].receiver = NULL
                /\ donations'[d].driver = NULL
                /\ donations'[d].donor = req'[p].actor
                /\ req'[p].actor \in Donors
                /\ \A e \in Donations \ {d} : donations'[e] = donations[e]]_vars

\* a donation has just been created and nothing has touched it yet
C24_Witness ==
    \E p \in Procs :
        /\ req[p].op = "create" /\ req[p].pc = "idle" /\ req[p].res = "ok"
        /\ donations[req[p].id] = NewDonation(req[p].actor, 90, TRUE)

(***************************************************************************)
(* C25: no step changes the donor of a donation that exists.               *)
(***************************************************************************)
C25_DonorImmutable ==
    [][\A d \in Donations :
          donations[d].status # "absent" => donations'[d].donor = donations[d].donor]_vars

\* a donation has been reserved by one request and moved on by another
C25_Witness ==
    \E p, q \in Procs :
        /\ req[p].op = "reserve" /\ req[p].pc = "idle" /\ req[p].res = "ok"
        /\ req[q].op \in {"assign", "auto_assign", "status"}
        /\ req[q].pc = "idle" /\ req[q].res = "ok" /\ req[q].id = req[p].id
        /\ donations[req[p].id].status \notin {"available", "reserved"}
        /\ donations[req[p].id].donor \in Donors

(***************************************************************************)
(* C26: the quantity computed for a list of items is the sum over the      *)
(* items of quantity times the unit factor (kg 1, liters 1, boxes 5,       *)
(* packets 0.5, pieces 0.2, any other unit 1); it is 0 for the empty list  *)
(* and, for every split of the list in two, the sum of the quantities      *)
(* computed for the two parts.  (Quantities are in tenths of a kg.)        *)
(***************************************************************************)
UnitFactor(unit) ==
    CASE unit \in {"kg", "liters"} -> 10
      [] unit = "boxes" -> 50
      [] unit = "packets" -> 5
      [] unit = "pieces" -> 2
      [] OTHER -> 10

RECURSIVE DemandKg(_)
DemandKg(items) ==
    IF items = << >> THEN 0
    ELSE Head(items).quantity * UnitFactor(Head(items).unit) + DemandKg(Tail(items))

C26_DemandIsAdditive ==
    calc.fn = "calculateFoodQuantity"
    => LET items == calc.arg.foodItems
       IN /\ calc.out = DemandKg(items)
          /\ items = << >> => calc.out = 0
          /\ \A k \in 0..Len(items) :
                calc.out = calculateFoodQuantity(SubSeq(items, 1, k))
                             + calculateFoodQuantity(SubSeq(items, k + 1, Len(items)))

\* three boxes and one packet of an unknown unit: 15 kg + 1 kg
C26_Witness ==
    /\ calc.fn = "calculateFoodQuantity"
    /\ calc.arg.foodItems = <<[quantity |-> 3, unit |-> "boxes"], [quantity |-> 1, unit |-> "bags"]>>
    /\ calc.out = 160

(***************************************************************************)
(* C27: the capacity computed for a vehicle class is 50 for small, 150 for *)
(* medium, 300 for large, and 150 for every other or absent class.         *)
(***************************************************************************)
CapacityKg(class) ==
    CASE class = "small" -> 50
      [] class = "medium" -> 150
      [] class = "large" -> 300
      [] OTHER -> 150

C27_CapacityTable ==
    calc.fn = "getVehicleCapacityKg"
    => /\ calc.numeric
       /\ calc.out = CapacityKg(calc.arg.vehicleCapacity)

(***************************************************************************)
(* C28: every entry of a list of eligible drivers carries the score        *)
(* 0.4*distance + 0.3*(100 - reputation) + 0.2*(quantity/capacity): exactly *)
(* in the auto-selecting commit, and rounded to two decimals in the        *)
(* advisory route; for the donation of 90 kg a list holding both drivers   *)
(* of the scenario ranks the medium vehicle (5 km, reputation 90) first    *)
(* with 5.12 and the large one (20 km, reputation 100) second with 8.06.   *)
(* (Commit scores are in 1/3000, advisory scores in 1/100.)                *)
(***************************************************************************)
ScoreFormula(distance, reputation, quantity, capacity) ==
    1200 * distance + 900 * (100 - reputation) + (600 * quantity) \div capacity

SnapshotOf(p, v) == req[p].all[CHOOSE k \in 1..Len(req[p].all) : req[p].all[k].id = v].doc

C28_ScoreFormula ==
    [][\A p \in Procs :
          (req[p].op \in RankingOps /\ req[p].pc # "idle" /\ Steps(p))
          => /\ \A k \in 1..Len(req'[p].elig) :
                   LET e == req'[p].elig[k]
                       doc == SnapshotOf(p, e.driver)
                       formula == ScoreFormula(doc.distance, doc.reputationScore,
                                               req[p].don.foodQuantity, e.capacity)
                   IN IF req[p].op = "auto_assign"
                      THEN e.score = formula
                      ELSE 30 * e.score - formula \in -15..15
             /\ ( /\ Len(req'[p].elig) = 2
                  /\ req[p].don.foodQuantity = 90
                  /\ req'[p].pc \in {"idle", "auto_save_donation"} )
                   => /\ req'[p].elig[1].driver = "v1"
                      /\ req'[p].elig[2].driver = "v2"
                      /\ req[p].op = "advisory"
                            => req'[p].elig[1].score = 512 /\ req'[p].elig[2].score = 806
                      /\ req[p].op = "auto_assign"
                            => /\ req'[p].elig[1].score = 15360
                               /\ req'[p].elig[2].score = 24180]_vars

(***************************************************************************)
(* C29: a donation that is delivered has a delivery proof and a delivery   *)
(* time, whichever request delivered it.                                   *)
(***************************************************************************)
C29_DeliveredHasProof ==
    \A d \in Donations :
        donations[d].status = "delivered"
        => donations[d].deliveryProof /\ donations[d].actualDeliveryTime

(***************************************************************************)
(* C30: when an assign (manual or auto) reports success, the vehicle of    *)
(* the driver bound to the donation carries at least the donation's        *)
(* quantity.                                                               *)
(***************************************************************************)
C30_CapacityCoversDemand ==
    [][\A p \in Procs :
          ( /\ req[p].op \in AssignOps /\ Completes(p, "ok")
            /\ donations'[req[p].id].driver \in Drivers )
          => getVehicleCapacityKg(users'[donations'[req[p].id].driver].vehicleCapacity)
                >= donations'[req[p].id].foodQuantity]_vars

(***************************************************************************)
(* C31: when a run consists of a delivery completion of a donation of      *)
(* driver v (whose synchronisation recomputes v's occupancy) and an assign *)
(* (manual or auto) of another donation to v, and both report success,     *)
(* the final state never has v available while v has a donation in         *)
(* assigned or picked_up.                                                  *)
(***************************************************************************)
C31_SyncAssignRace ==
    \A p, q \in Procs : \A v \in Drivers :
        ( /\ p # q /\ AllIdle
          /\ req[p].op \in {"status", "proof"} /\ req[p].res = "ok"
          /\ donations[req[p].id].status = "delivered"
          /\ donations[req[p].id].driver = v
          /\ req[q].op \in AssignOps /\ req[q].res = "ok"
          /\ req[q].arg = v /\ req[q].id # req[p].id )
        => ~( users[v].driverStatus = "available" /\ CountActive(v, NULL) > 0 )

(***************************************************************************)
(* C32: in every reachable state, each driver has at most one donation     *)
(* with status assigned or picked_up.                                      *)
(***************************************************************************)
C32_OneActivePerDriver ==
    \A v \in Drivers : CountActive(v, NULL) <= 1

(***************************************************************************)
(* C33: once a donation's driver reference has been set, no step of any    *)
(* request changes it to a different driver.                               *)
(***************************************************************************)
C33_DriverNeverRebound ==
    [][\A d \in Donations :
          donations[d].driver # NULL
          => donations'[d].driver = donations[d].driver]_vars

(***************************************************************************)
(* C34: when two receivers reserve the same available donation in          *)
(* overlapping requests, at most one of the two reports success, and a     *)
(* reserve that reports success leaves the donation with its caller as     *)
(* the receiver.                                                           *)
(***************************************************************************)
C34_OneReserveWins ==
    [][\A p \in Procs :
          (req[p].op = "reserve" /\ Completes(p, "ok"))
          => /\ donations'[req[p].id].receiver = req[p].actor
             /\ \A q \in Procs \ {p} :
                   ~( /\ req[q].op = "reserve" /\ req[q].id = req[p].id
                      /\ req[q].actor # req[p].actor
                      /\ req[q].res = "ok" )]_vars

(***************************************************************************)
(* C35: when the advisory route has answered for a donation and the        *)
(* auto-selecting commit has ranked its candidates for the same donation   *)
(* on the same store (neither has written yet), both considered the same   *)
(* set of drivers and the driver the commit is about to bind is the first  *)
(* driver of the advisory list.                                            *)
(***************************************************************************)
C35_CommitPicksAdvisoryFirst ==
    \A p, q \in Procs :
        ( /\ req[p].op = "auto_assign" /\ req[p].pc = "auto_save_donation"
          /\ req[q].op = "advisory" /\ req[q].pc = "idle" /\ req[q].res = "ok"
          /\ req[q].id = req[p].id )
        => /\ {req[q].elig[k].driver : k \in 1..Len(req[q].elig)}
                 = {req[p].elig[k].driver : k \in 1..Len(req[p].elig)}
           /\ req[q].elig # << >>
           /\ req[q].elig[1].driver = req[p].elig[1].driver

\* the responses that report an error to the caller
ErrorResults ==
    {"not_found", "bad_request", "forbidden", "missing_location", "no_drivers", "error"}

\* p stands after a save of its own handler: the donation save of an assign
\* (manual or auto), of a status update to delivered or of a delivery proof
SavedBefore(p) ==
    req[p].pc \in {"assign_save_driver", "auto_save_driver",
                   "sync_find", "sync_count", "sync_save"}

(***************************************************************************)
(* C36: a request that reports an error, a storage fault in the middle of  *)
(* its handler included, has written nothing: the step that reports the    *)
(* error changes no donation and no user, and no save of the same handler  *)
(* precedes it.                                                            *)
(***************************************************************************)
C36_ErrorsWriteNothing ==
    [][\A p \in Procs :
          (req[p].pc # "idle" /\ req'[p].pc = "idle" /\ req'[p].res \in ErrorResults)
          => /\ donations' = donations /\ users' = users
             /\ ~SavedBefore(p)]_vars

=============================================================================
